---- MODULE Spec2Model ----
(***************************************************************************)
(* A model of server.py: the Session Registry (pcs), the offer() request   *)
(* handler, the per-session iceconnectionstatechange handler, on_shutdown  *)
(* and the startup NAT classifier detect_nat_type.                         *)
(*                                                                         *)
(* All coroutines run on one asyncio loop: an action is the code between   *)
(* two suspension points (await) of one coroutine.  RTCPeerConnection and  *)
(* aioice.Connection are the external capability: their state changes and *)
(* failures are inputs chosen by the environment.                          *)
(***************************************************************************)
EXTENDS Integers, Sequences, FiniteSets, TLC

\* Bounds of the model.
MaxRequests == 1      \* POST /offer requests handled in one run of Spec
MaxPending == 1       \* handler tasks of one session scheduled and not yet started
MaxCands == 2         \* candidates the NAT probe gathers
MaxCalls == 130       \* recv() calls on one track (the indicator wraps at the 129th)

\* Request bodies: what request.json() and the two subscripts can meet.
Bodies == {"badjson", "notype", "nosdp", "ok"}

\* ICE connection states reported by the connection (pc.iceConnectionState).
IceStates == {"new", "checking", "connected", "completed", "disconnected", "failed", "closed"}

\* State changes the connection makes by itself while it is open ("closed" is
\* only ever set by pc.close()).
IceNext ==
    { <<"new", "checking">>, <<"checking", "connected">>, <<"checking", "failed">>,
      <<"connected", "completed">>, <<"connected", "disconnected">>,
      <<"completed", "disconnected">>, <<"disconnected", "connected">>,
      <<"disconnected", "completed">>, <<"disconnected", "failed">> }

\* Candidates of the NAT probe (aioice candidate type and host).
CandTypes == {"host", "srflx", "relay"}
Hosts == {"192.168.1.100", "203.0.113.1"}
Candidate == [type : CandTypes, host : Hosts]
CandLists == UNION { [1..n -> Candidate] : n \in 0..MaxCands }
NatFailures == {"none", "socket", "gather"}
Probes == [local : {"192.168.1.100"}, cands : CandLists, fail : NatFailures]

\* Python's None for server_nat_info and public_ip.
None == [py_none |-> TRUE]
NoIp == "None"

VARIABLES
    pcs,              \* the Session Registry: set of sessions (one per well-formed request)
    reqPos,           \* reqPos[r]: where the offer() coroutine of request r stands
    iceState,         \* iceState[s]: pc.iceConnectionState
    closeState,       \* closeState[s]: "none" (no pc), "open", "closing", "closed"
    closer,           \* closer[s]: the coroutine that runs the body of pc.close()
    queue,            \* queue[s]: states emitted, one per handler task not yet started
    waiters,          \* waiters[s]: handler tasks suspended in await pc.close()
    sawDisc,          \* sawDisc[s]: a handler of s has observed "disconnected"
    hDone,            \* hDone[s]: a handler of s that observed failed/closed has finished
    sdPos,            \* on_shutdown: "idle", "gather", "done"
    coros,            \* on_shutdown: the sessions whose close() it gathers
    sdTask,           \* sdTask[s]: the gathered close() task of s
    sCalls,           \* sCalls[s]: close() invocations on s made by on_shutdown
    sdTol,            \* on_shutdown has called close() on a session already closing/closed
    natIn,            \* what the NAT probe will meet (input, fixed at start)
    natPos,           \* detect_nat_type: "start", "gather", "classify", "done"
    probe,            \* the aioice connection of detect_nat_type: "none", "open", "closed"
    server_nat_info,  \* the NAT Classification Result
    resp,             \* resp[r]: the response body offer() returned to request r
    warned,           \* warned[r]: offer() printed the no-candidates WARNING
    slept,            \* slept[r]: seconds of asyncio.sleep the coroutine of r has sat out
    counter,          \* ColorBarsVideoTrack.counter
    calls,            \* recv() calls made on the track
    img               \* the image of the frame the last recv() returned

\* The requests of the run, numbered in the order they arrive; a well-formed
\* request r creates the session r.
Req == DOMAIN reqPos

sessVars == <<pcs, reqPos, iceState, closeState, closer, queue, waiters, sawDisc, hDone>>
sdVars == <<sdPos, coros, sdTask, sCalls, sdTol>>
natVars == <<natIn, natPos, probe, server_nat_info>>
respVars == <<resp, warned, slept>>
videoVars == <<counter, calls, img>>
vars == <<sessVars, sdVars, natVars, respVars, videoVars>>

----------------------------------------------------------------------------
\* detect_nat_type

\* The loop over the candidates (lines 116-126): acc is <<has_host, has_srflx, public_ip>>.
RECURSIVE AnalyzeFrom(_, _, _)
AnalyzeFrom(cands, i, acc) ==
    IF i > Len(cands) THEN acc
    ELSE AnalyzeFrom(cands, i + 1,
            IF cands[i].type = "host" THEN <<TRUE, acc[2], acc[3]>>
            ELSE IF cands[i].type = "srflx" THEN <<acc[1], TRUE, cands[i].host>>
            ELSE acc)

Analyze(cands) == AnalyzeFrom(cands, 1, <<FALSE, FALSE, NoIp>>)

\* Variant of NatCategory: the reflexive candidate is not looked at.
NatCategoryHostOnly(has_host, has_srflx) ==
    IF has_host THEN "none" ELSE "unknown"

\* nat_category (lines 129-139)
NatCategory(has_host, has_srflx) ==
    IF has_host /\ ~has_srflx THEN "none"
    ELSE IF has_host /\ has_srflx THEN "unknown"
    ELSE "unknown"

\* nat_type (lines 129-139)
NatType(has_host, has_srflx) ==
    IF has_host /\ ~has_srflx THEN "No NAT detected - Same network as browser"
    ELSE IF has_host /\ has_srflx THEN "Behind NAT (type will be determined by connection test)"
    ELSE "Unknown network configuration"

\* public_ip or "Not detected" (line 143): None and the empty string are falsy.
OrNotDetected(public_ip) ==
    IF public_ip = NoIp \/ public_ip = "" THEN "Not detected" ELSE public_ip

\* The result written on the success path (lines 141-147).
NatInfo(local_ip, cands) ==
    LET a == Analyze(cands) IN
    [ local_ip |-> local_ip,
      public_ip |-> OrNotDetected(a[3]),
      nat_type |-> NatType(a[1], a[2]),
      nat_category |-> NatCategory(a[1], a[2]),
      has_srflx |-> a[2] ]

\* Variant of NatInfoError: the failure is labelled like an unrecognized
\* network configuration.
NatInfoErrorUnknown(msg) ==
    [ local_ip |-> "Unknown",
      public_ip |-> "Detection failed",
      error |-> msg,
      nat_type |-> "NAT detection failed - check server logs",
      nat_category |-> "unknown" ]

\* The result written by the except branch (lines 159-165); msg is str(e), and
\* the failure of the run is named by the message of its exception.
NatInfoError(msg) ==
    [ local_ip |-> "Unknown",
      public_ip |-> "Detection failed",
      error |-> msg,
      nat_type |-> "NAT detection failed - check server logs",
      nat_category |-> "error" ]

\* Lines 97-107: the local address, then the probe connection is created.
detect_nat_type_start ==
    /\ natPos = "start"
    /\ IF natIn.fail = "socket"
       THEN /\ server_nat_info' = NatInfoError("socket")
            /\ natPos' = "done"
            /\ UNCHANGED probe
       ELSE /\ probe' = "open"
            /\ natPos' = "gather"
            /\ UNCHANGED server_nat_info
    /\ UNCHANGED <<natIn, sessVars, sdVars, respVars, videoVars>>

\* Line 110: await connection.gather_candidates()
detect_nat_type_gather ==
    /\ natPos = "gather"
    /\ IF natIn.fail = "gather"
       THEN /\ server_nat_info' = NatInfoError("gather")
            /\ natPos' = "done"
       ELSE /\ natPos' = "classify"
            /\ UNCHANGED server_nat_info
    /\ UNCHANGED <<natIn, probe, sessVars, sdVars, respVars, videoVars>>

\* Lines 112-153: classify, write the result, close the probe.
detect_nat_type_classify ==
    /\ natPos = "classify"
    /\ server_nat_info' = NatInfo(natIn.local, natIn.cands)
    /\ probe' = "closed"
    /\ natPos' = "done"
    /\ UNCHANGED <<natIn, sessVars, sdVars, respVars, videoVars>>

----------------------------------------------------------------------------
\* offer()

\* Variant of Serving: requests are accepted while detect_nat_type still runs
\* (startup() started as a task instead of awaited by the on_startup hook).
ServingBeforeStartup == TRUE

\* Lines 276-281: on_startup awaits detect_nat_type() to its end before the
\* application accepts a request or can be shut down.
Serving == natPos = "done"

\* The response body is not there while offer() has not returned.
NoResponse == [no_response |-> TRUE]

\* Lines 175-178: where a request fails before any session exists.
ParseFailure(body) ==
    CASE body = "badjson" -> "err_json"
      [] body = "notype" -> "err_type"
      [] body = "nosdp" -> "err_sdp"
      [] OTHER -> "none"

\* Variant of offer_receive: the session is created and registered before the
\* subscripts params["type"] and params["sdp"] are evaluated.
offer_receive_register_first(r, body) ==
    /\ Serving
    /\ sdPos # "done"
    /\ reqPos[r] = "idle"
    /\ \A q \in Req : q < r => reqPos[q] # "idle"
    /\ IF body = "badjson"
       THEN /\ reqPos' = [reqPos EXCEPT ![r] = "err_json"]
            /\ UNCHANGED <<pcs, iceState, closeState>>
       ELSE /\ pcs' = pcs \cup {r}
            /\ closeState' = [closeState EXCEPT ![r] = "open"]
            /\ iceState' = [iceState EXCEPT ![r] = "new"]
            /\ reqPos' = [reqPos EXCEPT ![r] =
                    IF ParseFailure(body) # "none" THEN ParseFailure(body) ELSE "setRemote"]
    /\ UNCHANGED <<closer, queue, waiters, sawDisc, hDone, sdVars, natVars, respVars, videoVars>>

\* Variant of offer_receive: line 181, pcs.add(pc), is missing.
offer_receive_unregistered(r, body) ==
    /\ Serving
    /\ sdPos # "done"
    /\ reqPos[r] = "idle"
    /\ \A q \in Req : q < r => reqPos[q] # "idle"
    /\ IF ParseFailure(body) # "none"
       THEN /\ reqPos' = [reqPos EXCEPT ![r] = ParseFailure(body)]
            /\ UNCHANGED <<iceState, closeState>>
       ELSE /\ closeState' = [closeState EXCEPT ![r] = "open"]
            /\ iceState' = [iceState EXCEPT ![r] = "new"]
            /\ reqPos' = [reqPos EXCEPT ![r] = "setRemote"]
    /\ UNCHANGED <<pcs, closer, queue, waiters, sawDisc, hDone, sdVars, natVars, respVars, videoVars>>

\* Lines 175-221: the request is read; a well-formed one creates the session,
\* registers it and its handlers, and goes on to the remote description.
\* Requests are numbered in the order they arrive.
offer_receive(r, body) ==
    /\ Serving
    /\ sdPos # "done"
    /\ reqPos[r] = "idle"
    /\ \A q \in Req : q < r => reqPos[q] # "idle"
    /\ IF ParseFailure(body) # "none"
       THEN /\ reqPos' = [reqPos EXCEPT ![r] = ParseFailure(body)]
            /\ UNCHANGED <<pcs, iceState, closeState>>
       ELSE /\ pcs' = pcs \cup {r}
            /\ closeState' = [closeState EXCEPT ![r] = "open"]
            /\ iceState' = [iceState EXCEPT ![r] = "new"]
            /\ reqPos' = [reqPos EXCEPT ![r] = "setRemote"]
    /\ UNCHANGED <<closer, queue, waiters, sawDisc, hDone, sdVars, natVars, respVars, videoVars>>

\* The variables an awaited negotiation call of offer() leaves alone.
offerFrame == <<pcs, iceState, closeState, closer, queue, waiters, sawDisc, hDone>>

\* Lines 222-223: RTCSessionDescription(...) and await
\* pc.setRemoteDescription(offer) return (ok) or raise.
offer_setRemoteDescription(r, ok) ==
    /\ reqPos[r] = "setRemote"
    /\ reqPos' = [reqPos EXCEPT ![r] = IF ok THEN "createAnswer" ELSE "raised"]
    /\ UNCHANGED <<offerFrame, sdVars, natVars, respVars, videoVars>>

\* Line 226: await pc.createAnswer() returns or raises.
offer_createAnswer(r, ok) ==
    /\ reqPos[r] = "createAnswer"
    /\ reqPos' = [reqPos EXCEPT ![r] = IF ok THEN "setLocal" ELSE "raised"]
    /\ UNCHANGED <<offerFrame, sdVars, natVars, respVars, videoVars>>

\* Seconds of the gathering wait (line 232).
GatherWait == 5

\* What pc.localDescription.sdp can be after the wait: a description without
\* and one with a candidate line.
LocalSdps == {"v=0", "v=0 a=candidate"}

\* sdp.count('a=candidate') (line 236)
CandidateCount(sdp) == IF sdp = "v=0 a=candidate" THEN 1 ELSE 0

\* Variant of offer_setLocalDescription: the response is built right after
\* the local description is set, without asyncio.sleep.
offer_setLocalDescription_no_wait(r, ok) ==
    /\ reqPos[r] = "setLocal"
    /\ reqPos' = [reqPos EXCEPT ![r] = IF ok THEN "responded" ELSE "raised"]
    /\ resp' = [resp EXCEPT ![r] =
            IF ok THEN [sdp |-> "v=0", type |-> "answer", nat_info |-> server_nat_info] ELSE @]
    /\ warned' = [warned EXCEPT ![r] = ok]
    /\ UNCHANGED <<offerFrame, sdVars, natVars, slept, videoVars>>

\* Line 227: await pc.setLocalDescription(answer) returns or raises; on
\* return the coroutine suspends in asyncio.sleep(5.0) (line 232).
offer_setLocalDescription(r, ok) ==
    /\ reqPos[r] = "setLocal"
    /\ reqPos' = [reqPos EXCEPT ![r] = IF ok THEN "sleep" ELSE "raised"]
    /\ UNCHANGED <<offerFrame, sdVars, natVars, respVars, videoVars>>

\* Variant of offer_respond: a local description without candidates is
\* answered by raising instead of by the WARNING.
offer_respond_rejects_empty(r, sdp) ==
    /\ reqPos[r] = "sleep"
    /\ reqPos' = [reqPos EXCEPT ![r] =
            IF CandidateCount(sdp) = 0 THEN "raised" ELSE "responded"]
    /\ slept' = [slept EXCEPT ![r] = @ + GatherWait]
    /\ warned' = [warned EXCEPT ![r] = (CandidateCount(sdp) = 0)]
    /\ resp' = [resp EXCEPT ![r] =
            IF CandidateCount(sdp) = 0 THEN @
            ELSE [sdp |-> sdp, type |-> "answer", nat_info |-> server_nat_info]]
    /\ UNCHANGED <<offerFrame, sdVars, natVars, videoVars>>

\* Lines 232-249: the sleep is over, the local description sdp is read back,
\* the WARNING is printed when it holds no candidate, and the response is
\* returned with the description and the NAT result (resp is the dict that
\* line 248 serializes).
offer_respond(r, sdp) ==
    /\ reqPos[r] = "sleep"
    /\ reqPos' = [reqPos EXCEPT ![r] = "responded"]
    /\ slept' = [slept EXCEPT ![r] = @ + GatherWait]
    /\ warned' = [warned EXCEPT ![r] = (CandidateCount(sdp) = 0)]
    /\ resp' = [resp EXCEPT ![r] =
            [sdp |-> sdp, type |-> "answer", nat_info |-> server_nat_info]]
    /\ UNCHANGED <<offerFrame, sdVars, natVars, videoVars>>

----------------------------------------------------------------------------
\* The connection (external capability)

\* The connection changes its ICE state and emits iceconnectionstatechange:
\* the async handler registered at lines 194-195 is scheduled as a task.
\* ICE starts once both descriptions are applied.
ice_state_change(s, new) ==
    /\ closeState[s] = "open"
    /\ reqPos[s] \in {"sleep", "responded"}
    /\ <<iceState[s], new>> \in IceNext
    /\ Len(queue[s]) < MaxPending
    /\ iceState' = [iceState EXCEPT ![s] = new]
    /\ queue' = [queue EXCEPT ![s] = Append(@, new)]
    /\ UNCHANGED <<pcs, reqPos, closeState, closer, waiters, sawDisc, hDone, sdVars, natVars, respVars, videoVars>>

\* Variant of close_complete: the handler that ran the close ends without
\* line 207, pcs.discard(pc).
close_complete_no_discard(s) ==
    /\ closeState[s] = "closing"
    /\ closeState' = [closeState EXCEPT ![s] = "closed"]
    /\ iceState' = [iceState EXCEPT ![s] = "closed"]
    /\ queue' = [queue EXCEPT ![s] = Append(@, "closed")]
    /\ IF closer[s] = "handler"
       THEN /\ hDone' = [hDone EXCEPT ![s] = TRUE]
            /\ UNCHANGED sdTask
       ELSE /\ sdTask' = [sdTask EXCEPT ![s] = "done"]
            /\ UNCHANGED hDone
    /\ UNCHANGED <<pcs, reqPos, closer, waiters, sawDisc, sdPos, coros, sCalls, sdTol, natVars, respVars, videoVars>>

\* The body of pc.close() finishes: the state becomes "closed" and the change
\* is emitted.  The coroutine that ran the body goes on without suspending:
\* a handler discards the session (line 207), a gathered task of on_shutdown ends.
close_complete(s) ==
    /\ closeState[s] = "closing"
    /\ closeState' = [closeState EXCEPT ![s] = "closed"]
    /\ iceState' = [iceState EXCEPT ![s] = "closed"]
    /\ queue' = [queue EXCEPT ![s] = Append(@, "closed")]
    /\ IF closer[s] = "handler"
       THEN /\ pcs' = pcs \ {s}
            /\ hDone' = [hDone EXCEPT ![s] = TRUE]
            /\ UNCHANGED sdTask
       ELSE /\ sdTask' = [sdTask EXCEPT ![s] = "done"]
            /\ UNCHANGED <<pcs, hDone>>
    /\ UNCHANGED <<reqPos, closer, waiters, sawDisc, sdPos, coros, sCalls, sdTol, natVars, respVars, videoVars>>

----------------------------------------------------------------------------
\* on_ice_connection_state_change

\* Variant of ClosesOn: "disconnected" closes the connection too.
ClosesOnDisconnected(state) == state \in {"failed", "closed", "disconnected"}

\* Line 204: the states on which the handler closes the connection.
ClosesOn(state) == state \in {"failed", "closed"}

\* Variant of on_ice_connection_state_change: pc.close() on a connection
\* that is already closed runs its body again.
on_ice_connection_state_change_recloses(s) ==
    /\ Len(queue[s]) > 0
    /\ queue' = [queue EXCEPT ![s] = Tail(@)]
    /\ sawDisc' = [sawDisc EXCEPT ![s] = @ \/ iceState[s] = "disconnected"]
    /\ IF ClosesOn(iceState[s])
       THEN CASE closeState[s] = "closing" ->
                    /\ waiters' = [waiters EXCEPT ![s] = @ + 1]
                    /\ UNCHANGED <<pcs, closeState, closer, hDone>>
              [] OTHER ->
                    /\ closeState' = [closeState EXCEPT ![s] = "closing"]
                    /\ closer' = [closer EXCEPT ![s] = "handler"]
                    /\ UNCHANGED <<pcs, waiters, hDone>>
       ELSE UNCHANGED <<pcs, closeState, closer, waiters, hDone>>
    /\ UNCHANGED <<reqPos, iceState, sdVars, natVars, respVars, videoVars>>

\* Lines 196-207: the oldest scheduled handler task of s starts and reads
\* pc.iceConnectionState.  On failed/closed it calls pc.close(): it runs the
\* body itself when the connection is open, waits for the running close when
\* it is closing, and goes straight on to pcs.discard(pc) when it is closed.
on_ice_connection_state_change(s) ==
    /\ Len(queue[s]) > 0
    /\ queue' = [queue EXCEPT ![s] = Tail(@)]
    /\ sawDisc' = [sawDisc EXCEPT ![s] = @ \/ iceState[s] = "disconnected"]
    /\ IF ClosesOn(iceState[s])
       THEN CASE closeState[s] = "open" ->
                    /\ closeState' = [closeState EXCEPT ![s] = "closing"]
                    /\ closer' = [closer EXCEPT ![s] = "handler"]
                    /\ UNCHANGED <<pcs, waiters, hDone>>
              [] closeState[s] = "closing" ->
                    /\ waiters' = [waiters EXCEPT ![s] = @ + 1]
                    /\ UNCHANGED <<pcs, closeState, closer, hDone>>
              [] OTHER ->
                    /\ pcs' = pcs \ {s}
                    /\ hDone' = [hDone EXCEPT ![s] = TRUE]
                    /\ UNCHANGED <<closeState, closer, waiters>>
       ELSE UNCHANGED <<pcs, closeState, closer, waiters, hDone>>
    /\ UNCHANGED <<reqPos, iceState, sdVars, natVars, respVars, videoVars>>

\* Lines 206-207: a handler that waited for a running close resumes and
\* discards the session.
on_ice_connection_state_change_resume(s) ==
    /\ waiters[s] > 0
    /\ closeState[s] = "closed"
    /\ waiters' = [waiters EXCEPT ![s] = @ - 1]
    /\ pcs' = pcs \ {s}
    /\ hDone' = [hDone EXCEPT ![s] = TRUE]
    /\ UNCHANGED <<reqPos, iceState, closeState, closer, queue, sawDisc, sdVars, natVars, respVars, videoVars>>

----------------------------------------------------------------------------
\* on_shutdown

\* Lines 253-254: one close() coroutine per registered session, gathered.
\* With no session the gather is already done and line 255 follows at once.
on_shutdown_start ==
    /\ Serving
    /\ sdPos = "idle"
    /\ coros' = pcs
    /\ IF pcs = {}
       THEN /\ sdPos' = "done"
            /\ pcs' = {}
            /\ UNCHANGED sdTask
       ELSE /\ sdPos' = "gather"
            /\ sdTask' = [s \in Req |-> IF s \in pcs THEN "pending" ELSE "none"]
            /\ UNCHANGED pcs
    /\ UNCHANGED <<reqPos, iceState, closeState, closer, queue, waiters, sawDisc, hDone,
                   sCalls, sdTol, natVars, respVars, videoVars>>

\* Variant of on_shutdown_close: closing a connection that is not open raises,
\* the gather raises and on_shutdown ends at line 254 without line 255.
on_shutdown_close_strict(s) ==
    /\ sdPos = "gather"
    /\ sdTask[s] = "pending"
    /\ sCalls' = [sCalls EXCEPT ![s] = @ + 1]
    /\ sdTol' = (sdTol \/ closeState[s] # "open")
    /\ IF closeState[s] = "open"
       THEN /\ closeState' = [closeState EXCEPT ![s] = "closing"]
            /\ closer' = [closer EXCEPT ![s] = "shutdown"]
            /\ sdTask' = [sdTask EXCEPT ![s] = "running"]
            /\ UNCHANGED sdPos
       ELSE /\ sdPos' = "raised"
            /\ sdTask' = [sdTask EXCEPT ![s] = "done"]
            /\ UNCHANGED <<closeState, closer>>
    /\ UNCHANGED <<pcs, reqPos, iceState, queue, waiters, sawDisc, hDone, coros, natVars, respVars, videoVars>>

\* Line 254: the gathered task of s starts, calling pc.close().
on_shutdown_close(s) ==
    /\ sdPos = "gather"
    /\ sdTask[s] = "pending"
    /\ sCalls' = [sCalls EXCEPT ![s] = @ + 1]
    /\ sdTol' = (sdTol \/ closeState[s] # "open")
    /\ CASE closeState[s] = "open" ->
                /\ closeState' = [closeState EXCEPT ![s] = "closing"]
                /\ closer' = [closer EXCEPT ![s] = "shutdown"]
                /\ sdTask' = [sdTask EXCEPT ![s] = "running"]
         [] closeState[s] = "closing" ->
                /\ sdTask' = [sdTask EXCEPT ![s] = "waiting"]
                /\ UNCHANGED <<closeState, closer>>
         [] OTHER ->
                /\ sdTask' = [sdTask EXCEPT ![s] = "done"]
                /\ UNCHANGED <<closeState, closer>>
    /\ UNCHANGED <<pcs, reqPos, iceState, queue, waiters, sawDisc, hDone, sdPos, coros, natVars, respVars, videoVars>>

\* Line 254: a gathered task that waited for a running close ends.
on_shutdown_close_resume(s) ==
    /\ sdPos = "gather"
    /\ sdTask[s] = "waiting"
    /\ closeState[s] = "closed"
    /\ sdTask' = [sdTask EXCEPT ![s] = "done"]
    /\ UNCHANGED <<sessVars, sdPos, coros, sCalls, sdTol, natVars, respVars, videoVars>>

\* Variant of on_shutdown_finish: line 255, pcs.clear(), is missing.
on_shutdown_finish_no_clear ==
    /\ sdPos = "gather"
    /\ \A s \in coros : sdTask[s] = "done"
    /\ sdPos' = "done"
    /\ UNCHANGED <<sessVars, coros, sdTask, sCalls, sdTol, natVars, respVars, videoVars>>

\* Lines 254-255: every gathered task has ended; pcs.clear().
on_shutdown_finish ==
    /\ sdPos = "gather"
    /\ \A s \in coros : sdTask[s] = "done"
    /\ pcs' = {}
    /\ sdPos' = "done"
    /\ UNCHANGED <<reqPos, iceState, closeState, closer, queue, waiters, sawDisc, hDone,
                   coros, sdTask, sCalls, sdTol, natVars, respVars, videoVars>>

----------------------------------------------------------------------------
\* ColorBarsVideoTrack

\* width, height = 640, 480 (line 60)
Width == 640
Height == 480

\* bar_width = width // 7 (line 64)
BarWidth == Width \div 7

\* colors (lines 65-73): white, yellow, cyan, green, magenta, red, blue.
Colors ==
    << <<255, 255, 255>>, <<255, 255, 0>>, <<0, 255, 255>>, <<0, 255, 0>>,
       <<255, 0, 255>>, <<255, 0, 0>>, <<0, 0, 255>> >>

\* [0, 0, 0]: what np.zeros holds and what the indicator is painted with.
Black == <<0, 0, 0>>

\* Columns of the indicator (line 82: indicator_pos:indicator_pos+5).
IndicatorWidth == 5

\* Before the first recv() there is no image.
NoFrame == [rows |-> 0, row |-> <<>>]

\* np.zeros((height, width, 3)) (line 61).  recv() only ever assigns to
\* img[:, a:b], so all rows of the image are equal: the image is held as the
\* number of its rows and one row; column x of the code is row[x + 1].
Zeros(height, width) == [rows |-> height, row |-> [x \in 1..width |-> Black]]

\* img[:, a:b] = color (lines 78 and 82); numpy clips the slice at the end of
\* the row.
SetColumns(image, a, b, color) ==
    [rows |-> image.rows,
     row |-> [x \in DOMAIN image.row |->
                IF a <= x - 1 /\ x - 1 < b THEN color ELSE image.row[x]]]

\* Variant of BarEnd: the last bar is as wide as the others.
BarEndEven(i) == i * BarWidth + BarWidth

\* x_end (line 77): the last bar runs to the right edge.
BarEnd(i) == IF i < 6 THEN i * BarWidth + BarWidth ELSE Width

\* The loop over the colours (lines 75-78), from bar i on.
RECURSIVE PaintBars(_, _)
PaintBars(image, i) ==
    IF i >= Len(Colors) THEN image
    ELSE PaintBars(SetColumns(image, i * BarWidth, BarEnd(i), Colors[i + 1]), i + 1)

\* Variant of IndicatorPos: the quotient instead of the remainder.
IndicatorPosQuotient(c) == c \div Width

\* indicator_pos (line 81)
IndicatorPos(c) == c % Width

\* Variant of NextCounter: the counter is kept below the width.
NextCounterWrapped(c) == (c + 5) % Width

\* self.counter += 5 (line 84); a Python int does not overflow.
NextCounter(c) == c + 5

\* The image recv() builds when the counter is c (lines 60-82).
Image(c) ==
    SetColumns(PaintBars(Zeros(Height, Width), 0),
               IndicatorPos(c), IndicatorPos(c) + IndicatorWidth, Black)

\* VideoFrame.from_ndarray(img, format="rgb24") (line 86): the frame takes its
\* width and height from the shape of the array.
FrameWidth(image) == Len(image.row)
FrameHeight(image) == image.rows

\* recv() (lines 56-89): after next_timestamp() the image is built, the
\* counter advanced and the frame returned.
recv ==
    /\ calls < MaxCalls
    /\ img' = Image(counter)
    /\ counter' = NextCounter(counter)
    /\ calls' = calls + 1
    /\ UNCHANGED <<sessVars, sdVars, natVars, respVars>>

----------------------------------------------------------------------------
\* Specifications

InitSessions(n) ==
    /\ pcs = {}
    /\ reqPos = [r \in 1..n |-> "idle"]
    /\ iceState = [s \in 1..n |-> "new"]
    /\ closeState = [s \in 1..n |-> "none"]
    /\ closer = [s \in 1..n |-> "none"]
    /\ queue = [s \in 1..n |-> <<>>]
    /\ waiters = [s \in 1..n |-> 0]
    /\ sawDisc = [s \in 1..n |-> FALSE]
    /\ hDone = [s \in 1..n |-> FALSE]
    /\ sdPos = "idle"
    /\ coros = {}
    /\ sdTask = [s \in 1..n |-> "none"]
    /\ sCalls = [s \in 1..n |-> 0]
    /\ sdTol = FALSE
    /\ resp = [r \in 1..n |-> NoResponse]
    /\ warned = [r \in 1..n |-> FALSE]
    /\ slept = [r \in 1..n |-> 0]

InitNat ==
    /\ natPos = "start"
    /\ probe = "none"
    /\ server_nat_info = None

\* The track as constructed (line 54); no frame has been made yet.
InitVideo ==
    /\ counter = 0
    /\ calls = 0
    /\ img = NoFrame

\* The probes the serving specification starts from: no candidate at all,
\* with each of the failures.  SpecNat covers every probe.
StartupProbes == {p \in Probes : p.cands = <<>>}

Init == InitSessions(MaxRequests) /\ InitNat /\ InitVideo /\ natIn \in StartupProbes

NextNat ==
    \/ detect_nat_type_start
    \/ detect_nat_type_gather
    \/ detect_nat_type_classify

Next ==
    \/ NextNat
    \/ \E r \in Req, body \in Bodies : offer_receive(r, body)
    \/ \E r \in Req, ok \in BOOLEAN : offer_setRemoteDescription(r, ok)
    \/ \E r \in Req, ok \in BOOLEAN : offer_createAnswer(r, ok)
    \/ \E r \in Req, ok \in BOOLEAN : offer_setLocalDescription(r, ok)
    \/ \E r \in Req, sdp \in LocalSdps : offer_respond(r, sdp)
    \/ \E s \in Req, new \in IceStates : ice_state_change(s, new)
    \/ \E s \in Req : close_complete(s)
    \/ \E s \in Req : on_ice_connection_state_change(s)
    \/ \E s \in Req : on_ice_connection_state_change_resume(s)
    \/ on_shutdown_start
    \/ \E s \in Req : on_shutdown_close(s)
    \/ \E s \in Req : on_shutdown_close_resume(s)
    \/ on_shutdown_finish

Spec == Init /\ [][Next]_vars

\* The classifier alone, on every probe.
InitProbe == InitSessions(MaxRequests) /\ InitNat /\ InitVideo /\ natIn \in Probes

SpecNat == InitProbe /\ [][NextNat]_vars

\* One request more than Spec: a request that is handled while on_shutdown
\* awaits the close of another session.
InitPair == InitSessions(MaxRequests + 1) /\ InitNat /\ InitVideo /\ natIn \in StartupProbes

SpecPair == InitPair /\ [][Next]_vars

\* The video track alone: recv() called again and again on one track.
NextVideo == recv

SpecVideo == Init /\ [][NextVideo]_vars

----------------------------------------------------------------------------
\* Properties

\* The step in which offer() of request r returns its response (line 246).
Responds(r) == reqPos[r] = "sleep" /\ reqPos'[r] = "responded"

\* The step in which a handler task of s starts and reads the state (line 196).
HandlerReads(s) == queue[s] # <<>> /\ queue'[s] = Tail(queue[s])

\* The step in which on_shutdown ends.
ShutdownEnds == sdPos = "gather" /\ sdPos' # "gather"

\* C1: when setRemoteDescription, createAnswer or setLocalDescription raised
\* out of offer(), the session of that request is no longer registered and
\* its connection is closed.
C1_NoSessionLeftAfterFailedNegotiation ==
    \A r \in Req : reqPos[r] = "raised" => r \notin pcs /\ closeState[r] = "closed"

\* C2: a request whose body is not JSON, or lacks "type", or lacks "sdp",
\* fails without creating a session and leaves the registry as it was.
C2_MalformedRequestLeavesRegistry ==
    [][\A r \in Req :
          (reqPos[r] = "idle" /\ reqPos'[r] \in {"err_json", "err_type", "err_sdp"})
              => (pcs' = pcs /\ closeState' = closeState /\ closeState'[r] = "none")]_vars

C2_Witness ==
    \E r \in Req : reqPos[r] \in {"err_type", "err_sdp"} /\ closeState[r] = "none" /\ r \notin pcs

\* C3 as stated: whenever offer() returns its response, the session of the
\* request is in the registry.
C3_RegisteredAtResponse ==
    [][\A r \in Req : Responds(r) => r \in pcs']_vars

\* C3 amended: when offer() returns its response, the session of the request
\* is in the registry exactly when no failed/closed handler of that session
\* has finished and on_shutdown has not completed.
C3_RegisteredAtResponseUnlessRemoved ==
    [][\A r \in Req : Responds(r) => (r \in pcs' <=> (~hDone'[r] /\ sdPos' # "done"))]_vars

C3_Witness ==
    \E r \in Req : /\ reqPos[r] = "responded" /\ r \in pcs /\ closeState[r] = "open"
                   /\ iceState[r] = "connected" /\ sdPos = "idle"

\* C4: once a handler that observed "failed" or "closed" has finished, the
\* connection is closed and the session is not in the registry, in every
\* later state.
C4_TerminalHandlerRemovesSession ==
    \A s \in Req : hDone[s] => (closeState[s] = "closed" /\ s \notin pcs)

C4_Witness ==
    \E s \in Req : hDone[s] /\ closer[s] = "handler" /\ reqPos[s] = "responded"

\* C5: a handler that observes "disconnected" changes neither the registry
\* nor the closing status of any connection.
C5_DisconnectedIsOnlyObserved ==
    [][\A s \in Req : (HandlerReads(s) /\ iceState[s] = "disconnected")
                          => (pcs' = pcs /\ closeState' = closeState)]_vars

C5_Witness ==
    \E s \in Req : /\ sawDisc[s] /\ iceState[s] = "connected" /\ queue[s] = <<>>
                   /\ s \in pcs /\ closeState[s] = "open"

C7_ShutdownToleratesClosing ==
    [][(ShutdownEnds /\ sdTol') => (sdPos' = "done" /\ pcs' = {})]_vars

C7_Witness ==
    /\ sdPos = "done" /\ sdTol /\ pcs = {}
    /\ \E s \in coros : closer[s] = "handler"

\* C8: no registered session has a closed connection.
C8_RegisteredIsLive ==
    \A s \in pcs : closeState[s] # "closed"

\* C9: every session whose connection has not been closed is registered.
C9_LiveIsRegistered ==
    \A s \in Req : closeState[s] = "open" => s \in pcs

\* The candidates of the probe hold one of the given type.
HasCandidate(type) == \E i \in 1..Len(natIn.cands) : natIn.cands[i].type = type

\* C10: the label written by a classifier run that did not fail depends only
\* on whether a host and whether a reflexive candidate was gathered: "none"
\* for host without reflexive, "unknown" otherwise; has_srflx says whether a
\* reflexive candidate was gathered, and with host and reflexive the public
\* address is the address of a reflexive candidate.
C10_LabelFromCandidateTypes ==
    (natPos = "done" /\ natIn.fail = "none") =>
        LET hh == HasCandidate("host")
            hs == HasCandidate("srflx")
        IN  /\ (hh /\ ~hs) => server_nat_info.nat_category = "none"
            /\ (hh /\ hs) =>
                   /\ server_nat_info.nat_category = "unknown"
                   /\ server_nat_info.has_srflx = TRUE
                   /\ \E i \in 1..Len(natIn.cands) :
                          /\ natIn.cands[i].type = "srflx"
                          /\ server_nat_info.public_ip = natIn.cands[i].host
            /\ (~hh) => server_nat_info.nat_category = "unknown"
            /\ server_nat_info.has_srflx = hs

C10_Witness ==
    /\ natPos = "done" /\ natIn.fail = "none"
    /\ HasCandidate("host") /\ HasCandidate("srflx")
    /\ server_nat_info.nat_category = "unknown" /\ server_nat_info.has_srflx = TRUE

\* C11: when reading the local address or gathering the candidates raised,
\* detect_nat_type still comes to its end, the result it wrote has the label
\* "error" and the message of the failure as its error detail, and every
\* response offer() returns afterwards carries that result as nat_info.
C11_FailedDetectionIsReportedAndServed ==
    (natPos = "done" /\ natIn.fail # "none") =>
        /\ server_nat_info.nat_category = "error"
        /\ server_nat_info.error = natIn.fail
        /\ \A r \in Req : reqPos[r] = "responded" => resp[r].nat_info = server_nat_info

C11_Witness ==
    \E r \in Req :
        /\ natIn.fail = "socket"
        /\ reqPos[r] = "responded"
        /\ resp[r].nat_info.nat_category = "error"
        /\ resp[r].nat_info.error = "socket"

\* C12: when detect_nat_type has returned, a probe connection it opened has
\* been closed, whether the run succeeded or failed.
C12_ProbeClosedAtReturn ==
    natPos = "done" => probe # "open"

\* C13: every result detect_nat_type writes carries the local address, the
\* public address, a label among none, unknown and error, and the boolean
\* has_srflx; the error detail is the only attribute that may be missing.
C13_ResultCarriesAllAttributes ==
    server_nat_info # None =>
        /\ {"local_ip", "public_ip", "nat_category", "has_srflx"} \subseteq DOMAIN server_nat_info
        /\ server_nat_info.nat_category \in {"none", "unknown", "error"}
        /\ server_nat_info.has_srflx \in BOOLEAN

BlackColumns(image) == {x \in 0..(Len(image.row) - 1) : image.row[x + 1] = Black}
Leftmost(S) == CHOOSE x \in S : \A y \in S : x <= y

\* C15: after the n-th call of recv() (n counted from 0, so calls = n + 1) the
\* frame is 640 wide and 480 high, the leftmost column of the black indicator
\* is (5 * n) mod 640, and the counter is 5 * (n + 1): every call adds exactly
\* 5 and the counter itself is never reduced.
C15_FrameSizeAndIndicatorColumn ==
    calls >= 1 =>
        /\ FrameWidth(img) = 640
        /\ FrameHeight(img) = 480
        /\ BlackColumns(img) # {}
        /\ Leftmost(BlackColumns(img)) = (5 * (calls - 1)) % 640
        /\ counter = 5 * calls

C15_Witness ==
    /\ calls = 130
    /\ counter = 650
    /\ Leftmost(BlackColumns(img)) = 5

\* C16: the images of two successive calls of recv() differ in at least one
\* pixel, also when the indicator goes from the right edge back to column 0.
C16_SuccessiveImagesDiffer ==
    [][(calls >= 1 /\ calls' = calls + 1) =>
            \E x \in DOMAIN img.row : img'.row[x] # img.row[x]]_vars

C16_Witness ==
    /\ calls = 129
    /\ BlackColumns(img) = 0..4

\* C17: every image holds at least 7 distinct colours: outside the indicator
\* bar i (0..5) fills the columns i*91 .. (i+1)*91 - 1 and bar 6 the columns
\* 546 .. 639, and each of the seven bar colours is on at least one column
\* wherever the 5-column indicator stands.
C17_SevenBarsStayVisible ==
    calls >= 1 =>
        LET p == Leftmost(BlackColumns(img))
            Bar(x) == IF x < 546 THEN x \div 91 ELSE 6
        IN  /\ Cardinality({img.row[x] : x \in DOMAIN img.row}) >= 7
            /\ \A x \in 0..639 : (x < p \/ x >= p + 5) => img.row[x + 1] = Colors[Bar(x) + 1]
            /\ \A i \in 0..6 : \E x \in 0..639 : Bar(x) = i /\ img.row[x + 1] = Colors[i + 1]
            /\ \A i, j \in 0..6 : i # j => Colors[i + 1] # Colors[j + 1]

C17_Witness ==
    /\ calls >= 1
    /\ BlackColumns(img) = 635..639
    /\ img.row[635] = Colors[7]

\* The step in which the sleep of offer() for request r ends (line 232).
SleepEnds(r) == reqPos[r] = "sleep" /\ reqPos'[r] # "sleep"

\* C18: when the local description read back after the wait holds no
\* candidate, offer() prints the WARNING and still returns the usual response,
\* with that description and the NAT result; it does not raise, and like the
\* response to a description with candidates it leaves the registry and the
\* connection as they were.
C18_NoCandidatesStillAnswered ==
    [][\A r \in Req :
          /\ (SleepEnds(r) /\ warned'[r]) =>
                 /\ reqPos'[r] = "responded"
                 /\ resp'[r] = [sdp |-> "v=0", type |-> "answer", nat_info |-> server_nat_info]
          /\ (SleepEnds(r) /\ resp'[r] # NoResponse) =>
                 (warned'[r] <=> CandidateCount(resp'[r].sdp) = 0)
          /\ SleepEnds(r) => pcs' = pcs /\ closeState' = closeState]_vars

C18_Witness ==
    \E r \in Req :
        /\ reqPos[r] = "responded"
        /\ resp[r].sdp = "v=0"
        /\ warned[r]
        /\ r \in pcs

\* The positions of offer() on a well-formed request, in the order of lines
\* 180-249: after the session is created, registered and given its handlers
\* the coroutine stands before setRemoteDescription, then before createAnswer,
\* before setLocalDescription, in the sleep, and has returned the response.
OfferOrder == <<"idle", "setRemote", "createAnswer", "setLocal", "sleep", "responded">>

\* C19: offer() makes its calls in one order: the session is created,
\* registered and given its handlers, the remote description is set, the
\* answer created, the answer set as local description, 5 seconds are waited,
\* the local description is read back, the response returned.  No call is
\* skipped on the way to the response, no response exists before the wait is
\* over, and the session is registered before the first description call.
C19_OfferStepsInOrder ==
    [][\A r \in Req :
          /\ (reqPos'[r] # reqPos[r] /\ reqPos'[r] \notin {"err_json", "err_type", "err_sdp", "raised"}) =>
                 \E i \in 1..(Len(OfferOrder) - 1) :
                     reqPos[r] = OfferOrder[i] /\ reqPos'[r] = OfferOrder[i + 1]
          /\ (reqPos[r] = "idle" /\ reqPos'[r] = "setRemote") =>
                 r \in pcs' /\ closeState'[r] = "open"
          /\ Responds(r) => slept[r] = 0 /\ slept'[r] = 5
          /\ resp'[r] # resp[r] => reqPos[r] = "sleep" /\ reqPos'[r] = "responded"
          /\ reqPos'[r] = "responded" => resp'[r] # NoResponse /\ slept'[r] = 5]_vars

C19_Witness ==
    \E r \in Req :
        /\ reqPos[r] = "responded"
        /\ slept[r] = GatherWait
        /\ resp[r].sdp = "v=0 a=candidate"
        /\ r \in pcs

\* A handler task of s has started and not finished: it is suspended in
\* await pc.close() (line 206).
HandlerSuspended(s) ==
    waiters[s] > 0 \/ (closeState[s] = "closing" /\ closer[s] = "handler")

\* C20: the state changes of a session are handled one at a time, in the
\* order they were emitted: a handler, its awaited close included, has
\* finished before the next handler of the session starts, so no handler
\* starts while an earlier one is still suspended in await pc.close().
C20_HandlersOneAtATime ==
    [][\A s \in Req : HandlerReads(s) => ~HandlerSuspended(s)]_vars

\* The step in which on_shutdown builds its list of close() coroutines from
\* the registry (line 253), and the step in which it clears the registry
\* (line 255).
ShutdownIterates == sdPos = "idle" /\ sdPos' # "idle"
ShutdownClears == sdPos # "done" /\ sdPos' = "done"

\* C21: on_shutdown sees the registry unchanged while it iterates it, and
\* every session it removes by clearing the registry is one it iterated and
\* invoked close on, however offers and the sessions' own removals interleave
\* with it.
C21_ShutdownClearsOnlyWhatItClosed ==
    [][/\ ShutdownIterates => coros' = pcs
       /\ ShutdownClears => \A s \in pcs : s \in coros' /\ sCalls'[s] >= 1]_vars

\* The step in which a handler task of s calls pc.close() (line 206), and
\* whether a handler of s has called it before: the handler that ran the body
\* of close is its closer, one that waits for a running close is a waiter, and
\* one that has finished after the call has set hDone.
HandlerInvokesClose(s) == HandlerReads(s) /\ ClosesOn(iceState[s])
HandlerCalledClose(s) == closer[s] = "handler" \/ waiters[s] > 0 \/ hDone[s]

\* C22 as stated: over the lifetime of a session its state-change handlers
\* call close on the connection at most once, whatever notifications arrive.
C22_HandlerInvokesCloseAtMostOnce ==
    [][\A s \in Req : HandlerInvokesClose(s) => ~HandlerCalledClose(s)]_vars

\* C22, amended: the handlers call close once for every notification they
\* handle while the state is failed or closed, but the connection is closed
\* at most once: a close only ever starts on an open connection, a closing or
\* closed connection never opens again, and a call by a handler after the
\* first leaves the connection as it is.
C22_ConnectionClosedAtMostOnce ==
    [][\A s \in Req :
          /\ (closeState'[s] = "closing" /\ closeState[s] # "closing") =>
                 closeState[s] = "open" /\ closer[s] = "none"
          /\ closeState[s] \in {"closing", "closed"} => closeState'[s] # "open"
          /\ (HandlerInvokesClose(s) /\ HandlerCalledClose(s)) =>
                 /\ closeState'[s] = closeState[s]
                 /\ iceState'[s] = iceState[s]
                 /\ closer'[s] = closer[s]]_vars

\* The handler of failed has run the close and the handler of the closed it
\* emitted has called close again.
C22_Witness ==
    \E s \in Req :
        /\ closer[s] = "handler"
        /\ closeState[s] = "closed"
        /\ hDone[s]
        /\ queue[s] = <<>>
        /\ s \notin pcs

====
